---- MODULE Spec2Model ----
(***************************************************************************)
(* Fresco command line driver (bin/fresco.py, main): argument handling,   *)
(* particle loading, luminosity assignment, centering and cropping, the   *)
(* rotation pre-step and the frame loop with its output file names.       *)
(*                                                                         *)
(* Optional values (None or a value) are sequences of length 0 or 1.      *)
(* Lengths are integers in units of 1/Scale parsec, so that centroids of  *)
(* up to MaxParticles equal-mass particles and bounding-box midpoints are *)
(* exact.  Calls into AMUSE, numpy and matplotlib are recorded in logs.   *)
(***************************************************************************)
EXTENDS Integers, Sequences, FiniteSets, TLC

\* ------------------------------------------------------------------ bounds
MaxFrames == 3
MaxParticles == 2
MaxField == 1
MaxVal == 2

\* ------------------------------------------------------- program constants
DefaultWidthPc == 5

None == <<>>
Some(v) == <<v>>
IsNone(o) == o = <<>>
Val(o) == o[1]

RECURSIVE Factorial(_)
Factorial(n) == IF n <= 1 THEN 1 ELSE n * Factorial(n - 1)

\* one parsec, in model length units
Scale == 2 * Factorial(MaxParticles)

Bands == {"u", "b", "v", "r", "i"}

\* ----------------------------------------------------------- the file system
ExistingPaths == {"stars.amuse", "gas.amuse", "follow.amuse", "psf.fits"}

Exists(path) == path \in ExistingPaths

\* Python truthiness of an optional string: None and "" are false
Truthy(name) == ~IsNone(name) /\ Val(name) # ""

\* str.lower() on the PSF names the model draws
Lower(s) ==
    CASE s = "Hubble" -> "hubble"
      [] s = "GAUSSIAN" -> "gaussian"
      [] OTHER -> s

\* ------------------------------------------------------------ particle data
\* positions (parsec) a particle file may hold
PointsPc == {<<0, 0, 0>>, <<3, 1, 2>>, <<0, 8, -2>>}

Particle(p, kind) ==
    [key |-> <<kind, p>>,
     pos |-> <<p[1] * Scale, p[2] * Scale, p[3] * Scale>>,
     evolved |-> FALSE,
     bands |-> {}]

\* non-empty particle files of at most MaxParticles particles
FileContents(kind) ==
    {{Particle(p, kind) : p \in ps} :
        ps \in {s \in SUBSET PointsPc : s # {} /\ Cardinality(s) <= MaxParticles}}

\* follow files: star keys to center on
FollowContents == {{<<"star", p>>} : p \in PointsPc}

RECURSIVE SumCoord(_, _)
SumCoord(ps, i) ==
    IF ps = {} THEN 0
    ELSE LET p == CHOOSE q \in ps : TRUE
         IN p.pos[i] + SumCoord(ps \ {p}, i)

MinCoord(ps, i) == CHOOSE m \in {p.pos[i] : p \in ps} : \A p \in ps : m <= p.pos[i]
MaxCoord(ps, i) == CHOOSE m \in {p.pos[i] : p \in ps} : \A p \in ps : m >= p.pos[i]
Max2(a, b) == IF a >= b THEN a ELSE b

\* center_of_mass() of a non-empty set of equal-mass particles
CenterOfMass(ps) ==
    <<SumCoord(ps, 1) \div Cardinality(ps),
      SumCoord(ps, 2) \div Cardinality(ps),
      SumCoord(ps, 3) \div Cardinality(ps)>>

Shift(ps, off) ==
    {[p EXCEPT !.pos = <<p.pos[1] - off[1], p.pos[2] - off[2], p.pos[3] - off[3]>>] :
        p \in ps}

\* the crop margins 1.5 * w / 2 and 1.1 * w / 2, as twentieths of the width
StarMarginTwentieths == 15
GasMarginTwentieths == 11

\* x > -m * w / 2 and x < m * w / 2, likewise y (strict on both sides)
InBox(p, twentieths, w) ==
    /\ 20 * p.pos[1] > -(twentieths * w)
    /\ 20 * p.pos[1] < twentieths * w
    /\ 20 * p.pos[2] > -(twentieths * w)
    /\ 20 * p.pos[2] < twentieths * w

CropStars(ps, w) == {p \in ps : InBox(p, StarMarginTwentieths, w)}

CropGas(ps, w) == {p \in ps : InBox(p, GasMarginTwentieths, w)}

\* evolve_to_age: the stellar evolution delegate gives every star of the set
\* its luminosity and temperature
EvolveToAge(ps) == {[p EXCEPT !.evolved = TRUE] : p \in ps}

\* setattr(stars, band + "_band", 1.0 | units.LSun) for band in sourcebands
SetFixedLuminosity(ps, sourcebands) == {[p EXCEPT !.bands = sourcebands] : p \in ps}

\* new_field_stars(n): n fresh stars inside the image, with no attributes set
NewFieldStars(n) ==
    {[key |-> <<"field", <<i, 0, 0>>>>, pos |-> <<0, 0, 0>>,
      evolved |-> FALSE, bands |-> {}] : i \in 1..n}

\* ---------------------------------------------------------- output naming
Digit(d) == <<"0", "1", "2", "3", "4", "5", "6", "7", "8", "9">>[d + 1]

RECURSIVE Decimal(_)
Decimal(n) == IF n < 10 THEN Digit(n) ELSE Decimal(n \div 10) \o Digit(n % 10)

RECURSIVE PadLeft(_, _)
PadLeft(s, width) == IF Len(s) >= width THEN s ELSE PadLeft("0" \o s, width)

\* "%06i" % n for n >= 0
Format06i(n) == PadLeft(Decimal(n), 6)

\* imagefilename if imagefilename is not None else "test"
BaseName(imagefilename) == IF IsNone(imagefilename) THEN "test" ELSE Val(imagefilename)

\* variant: the loop index is used as it comes from range(frames)
FrameNumber_ZeroBased(index, frames) == index

\* frame += frames, for the loop index frame of range(frames)
FrameNumber(index, frames) == index + frames

SaveFileName(imagefilename, imagetype, frame, frames) ==
    IF frames > 1
    THEN BaseName(imagefilename) \o "-" \o Format06i(frame) \o "." \o imagetype
    ELSE BaseName(imagefilename) \o "." \o imagetype

\* -------------------------------------------------------------- rotation
\* variant: no rotation before the loop
PreRotateFactor_Missing(frames) == 0

\* the factor of the rotation applied before the loop
PreRotateFactor(frames) == frames - 1

\* variant: a single-frame run is not rotated
RotatesInFrame_SkipSingle(frame, frames) == (frame # 0) /\ (frames # 1)

\* (frame != 0) or (frames == 1)
RotatesInFrame(frame, frames) == (frame # 0) \/ (frames = 1)

Times(k, angle) == <<k * angle[1], k * angle[2], k * angle[3]>>

\* rotate(set, ax, ay, az) on a non-empty set; nothing on an empty one
Rotate(log, ps, ax, ay, az) == IF ps # {} THEN Append(log, <<ax, ay, az>>) ELSE log

\* ------------------------------------------------------------- the state
VARIABLES
    args,               \* the parsed command line (read-only)
    disk,               \* contents of the particle files on disk (read-only)
    pc,                 \* position in main
    outcome,            \* "running", "done", or how the run was aborted
    stellar_evolution,
    vmax,               \* optional: the vmax carried from frame to frame
    psf_type,
    psf_file,
    use_com,
    offset,             \* <<x_offset, y_offset, z_offset>>
    image_width,        \* [max, len]: the literal "max", or a length
    nostars,
    nogas,
    stars,
    gas,
    index,              \* loop index of the frame loop
    readCalls,          \* paths given to read_set_from_file
    starOffset,         \* optional: the offset subtracted from the stars
    gasOffset,          \* optional: the offset subtracted from the gas
    starsRot,           \* rotate calls made on the stars, in order
    gasRot,             \* rotate calls made on the gas, in order
    imageCalls,         \* make_image calls, in order
    saved               \* file names given to savefig, in order

vars == <<args, disk, pc, outcome, stellar_evolution, vmax, psf_type, psf_file,
          use_com, offset, image_width, nostars, nogas, stars, gas, index,
          readCalls, starOffset, gasOffset, starsRot, gasRot, imageCalls, saved>>

config == <<args, disk>>
parsed == <<stellar_evolution, vmax, psf_type, psf_file, use_com>>
logs == <<readCalls, starOffset, gasOffset, starsRot, gasRot, imageCalls, saved>>

Vals == 1..MaxVal

WidthArgs == {[max |-> TRUE, len |-> 0], [max |-> FALSE, len |-> DefaultWidthPc * Scale]}

StarsNames == {None, Some(""), Some("nostars.amuse"), Some("stars.amuse")}
GasNames == {None, Some(""), Some("nogas.amuse"), Some("gas.amuse")}
FollowNames == {None, Some("follow.amuse")}
PsfNames == {"psf.fits", "Hubble", "GAUSSIAN", "wfc3"}
AngleSteps == {<<0, 0, 0>>, <<1, 0, 0>>, <<0, 2, 0>>, <<0, 0, 3>>, <<1, 2, 3>>}

\* the inputs are consistent with what the model covers: a follow file names
\* a star of the stars file, and "max" width comes with a stars file
Consistent(a, d) ==
    /\ ~IsNone(a.followfilename) => (\E p \in d.stars : p.key \in d.follow)
    /\ a.width.max => (Truthy(a.starsfilename) /\ Exists(Val(a.starsfilename)))

InitState ==
    /\ pc = "parse"
    /\ outcome = "running"
    /\ stellar_evolution = TRUE
    /\ vmax = None
    /\ psf_type = args.psf_type
    /\ psf_file = None
    /\ use_com = FALSE
    /\ offset = <<0, 0, 0>>
    /\ image_width = args.width
    /\ nostars = FALSE
    /\ nogas = FALSE
    /\ stars = {}
    /\ gas = {}
    /\ index = 0
    /\ readCalls = {}
    /\ starOffset = None
    /\ gasOffset = None
    /\ starsRot = <<>>
    /\ gasRot = <<>>
    /\ imageCalls = <<>>
    /\ saved = <<>>

\* runs that vary the files, the PSF, the luminosity and the centering options
Init ==
    /\ args \in [starsfilename : StarsNames, gasfilename : GasNames,
                 followfilename : FollowNames, imagefilename : {None},
                 imagetype : {"png"}, vmax : {0}, n_fieldstars : 0..MaxField,
                 contours : {FALSE}, angle : {<<0, 0, 0>>}, psf_type : PsfNames,
                 age : {0, 100}, width : WidthArgs, frames : {1, 2},
                 use_com : BOOLEAN, fixed_luminosity : BOOLEAN,
                 sourcebands : {Bands}]
    /\ disk \in [stars : FileContents("star"), gas : FileContents("gas"),
                 follow : FollowContents]
    /\ Consistent(args, disk)
    /\ InitState

\* runs that vary the frame loop: frames, angles, vmax, contours, file name
InitLoop ==
    /\ args \in [starsfilename : {None, Some("stars.amuse")},
                 gasfilename : {None, Some("gas.amuse")},
                 followfilename : {None}, imagefilename : {None, Some("out")},
                 imagetype : {"png", "jpg"}, vmax : {0} \cup Vals,
                 n_fieldstars : {0}, contours : BOOLEAN, angle : AngleSteps,
                 psf_type : {"Hubble"}, age : {100}, width : {[max |-> FALSE, len |-> DefaultWidthPc * Scale]},
                 frames : 1..MaxFrames, use_com : {FALSE},
                 fixed_luminosity : {FALSE}, sourcebands : {Bands}]
    /\ disk \in [stars : {{Particle(<<0, 0, 0>>, "star")}},
                 gas : {{Particle(<<0, 0, 0>>, "gas")}},
                 follow : {{<<"star", <<0, 0, 0>>>>}}]
    /\ InitState

\* ------------------------------------------------------------ the actions
\* main, lines 233-274: settings from the arguments, and the PSF check
ParseArgs ==
    /\ pc = "parse"
    /\ stellar_evolution' = ~args.fixed_luminosity
    /\ vmax' = IF args.vmax > 0 THEN Some(args.vmax) ELSE None
    /\ IF Exists(args.psf_type)
       THEN /\ psf_file' = Some(args.psf_type)
            /\ psf_type' = "file"
            /\ pc' = "sanity"
            /\ outcome' = outcome
       ELSE /\ psf_file' = None
            /\ psf_type' = Lower(args.psf_type)
            /\ IF psf_type' \notin {"hubble", "gaussian"}
               THEN pc' = "end" /\ outcome' = "SystemExit"
               ELSE pc' = "sanity" /\ outcome' = outcome
    /\ use_com' = IF ~IsNone(args.followfilename) THEN TRUE ELSE args.use_com
    /\ UNCHANGED <<config, offset, image_width, nostars, nogas, stars, gas, index, logs>>

\* variant: only a name that is not given counts as no file
NoFile_NoneOnly(name) == IsNone(name)

\* nostars and nogas
NoFile(name) == IF IsNone(name) THEN TRUE ELSE ~Exists(Val(name))

\* main, lines 276-290
SanityCheck ==
    /\ pc = "sanity"
    /\ nostars' = NoFile(args.starsfilename)
    /\ nogas' = NoFile(args.gasfilename)
    /\ IF nostars' /\ nogas'
       THEN pc' = "end" /\ outcome' = "FileNotFoundError"
       ELSE pc' = "load_stars" /\ outcome' = outcome
    /\ UNCHANGED <<config, parsed, offset, image_width, stars, gas, index, logs>>

\* the stars as lit by lines 304-309: the delegate when stellar evolution is on
\* and the age is positive, else the fixed luminosity when --fl is given
AssignLuminosity(ps) ==
    IF stellar_evolution /\ args.age > 0
    THEN EvolveToAge(ps)
    ELSE IF args.fixed_luminosity
         THEN SetFixedLuminosity(ps, args.sourcebands)
         ELSE ps

\* lines 310-323: the offset after the optional centering on the stars
StarCentre(ps) ==
    IF use_com
    THEN CenterOfMass(IF ~IsNone(args.followfilename)
                      THEN {p \in ps : p.key \in disk.follow}
                      ELSE ps)
    ELSE offset

\* lines 328-335: "max" width replaces the width and the x and y offsets
StarWidth(ps) ==
    IF image_width.max
    THEN Max2(MaxCoord(ps, 1) - MinCoord(ps, 1), MaxCoord(ps, 2) - MinCoord(ps, 2))
    ELSE image_width.len

StarOffset(ps) ==
    IF image_width.max
    THEN <<(MaxCoord(ps, 1) + MinCoord(ps, 1)) \div 2,
           (MaxCoord(ps, 2) + MinCoord(ps, 2)) \div 2,
           StarCentre(ps)[3]>>
    ELSE StarCentre(ps)

\* if starsfilename:
ReadsStars == Truthy(args.starsfilename)

\* main, lines 298-348
LoadStars ==
    /\ pc = "load_stars"
    /\ IF ReadsStars
       THEN /\ readCalls' = readCalls \cup {Val(args.starsfilename)}
                \cup (IF Exists(Val(args.starsfilename)) /\ use_com
                         /\ ~IsNone(args.followfilename)
                      THEN {Val(args.followfilename)} ELSE {})
            /\ IF ~Exists(Val(args.starsfilename))
               THEN \* read_set_from_file fails on a path that does not exist
                    /\ pc' = "end"
                    /\ outcome' = "LoaderError"
                    /\ UNCHANGED <<offset, image_width, stars, starOffset>>
               ELSE LET lit == AssignLuminosity(disk.stars)
                        off == StarOffset(lit)
                        width == StarWidth(lit)
                    IN /\ offset' = off
                       /\ image_width' = [max |-> FALSE, len |-> width]
                       /\ stars' = CropStars(Shift(lit, off), width)
                       /\ starOffset' = Some(off)
                       /\ pc' = "field"
                       /\ outcome' = outcome
       ELSE /\ stars' = {}
            /\ pc' = "field"
            /\ UNCHANGED <<outcome, offset, image_width, readCalls, starOffset>>
    /\ UNCHANGED <<config, parsed, nostars, nogas, gas, index, gasOffset,
                   starsRot, gasRot, imageCalls, saved>>

\* main, lines 350-360: field stars always go through the delegate
AddFieldStars ==
    /\ pc = "field"
    /\ stars' = IF args.n_fieldstars # 0
                THEN stars \cup EvolveToAge(NewFieldStars(args.n_fieldstars))
                ELSE stars
    /\ pc' = "load_gas"
    /\ UNCHANGED <<config, parsed, outcome, offset, image_width, nostars, nogas,
                   gas, index, logs>>

\* if gasfilename:
ReadsGas == Truthy(args.gasfilename)

\* variant: the gas is always centered on itself
GasOffset_AlwaysOwn(ps) == IF use_com THEN CenterOfMass(ps) ELSE offset

\* lines 368-371: the gas is centered on itself when there are no stars
GasOffset(ps) == IF use_com /\ stars = {} THEN CenterOfMass(ps) ELSE offset

\* main, lines 362-390
LoadGas ==
    /\ pc = "load_gas"
    /\ IF ReadsGas
       THEN /\ readCalls' = readCalls \cup {Val(args.gasfilename)}
            /\ IF ~Exists(Val(args.gasfilename))
               THEN /\ pc' = "end"
                    /\ outcome' = "LoaderError"
                    /\ UNCHANGED <<offset, gas, gasOffset>>
               ELSE LET off == GasOffset(disk.gas)
                    IN /\ offset' = off
                       /\ gas' = CropGas(Shift(disk.gas, off), image_width.len)
                       /\ gasOffset' = Some(off)
                       /\ pc' = "setup"
                       /\ outcome' = outcome
       ELSE /\ gas' = {}
            /\ pc' = "setup"
            /\ UNCHANGED <<outcome, offset, readCalls, gasOffset>>
    /\ UNCHANGED <<config, parsed, image_width, nostars, nogas, stars, index,
                   starOffset, starsRot, gasRot, imageCalls, saved>>

\* main, lines 393-411: the unit converter and the figure.  The total mass is
\* taken from the gas when there are no stars; what the converter does with
\* the mass of an empty set is left open
Setup ==
    /\ pc = "setup"
    /\ \E fails \in (IF stars = {} /\ gas = {} THEN BOOLEAN ELSE {FALSE}) :
          IF fails
          THEN pc' = "end" /\ outcome' = "ExternalError"
          ELSE pc' = "prerotate" /\ outcome' = outcome
    /\ UNCHANGED <<config, parsed, offset, image_width, nostars, nogas, stars,
                   gas, index, logs>>

\* main, lines 413-423
PreRotate ==
    /\ pc = "prerotate"
    /\ LET pre == Times(PreRotateFactor(args.frames), args.angle)
       IN /\ starsRot' = Rotate(starsRot, stars, pre[1], pre[2], pre[3])
          /\ gasRot' = Rotate(gasRot, gas, pre[1], pre[2], pre[3])
    /\ IF args.frames > 0
       THEN pc' = "frame" /\ outcome' = outcome
       ELSE pc' = "end" /\ outcome' = "done"
    /\ UNCHANGED <<config, parsed, offset, image_width, nostars, nogas, stars,
                   gas, index, readCalls, starOffset, gasOffset, imageCalls, saved>>

\* stars=stars if not stars.is_empty() else None
OrNone(ps) == IF ps # {} THEN Some(ps) ELSE None

\* the vmax left in the variable at the end of a frame: the one make_image
\* returned, or half the maximum of the contour map when contours are drawn
CarriedVmax(returned, contourHalfMax) ==
    IF stars # {} /\ args.contours /\ gas # {} THEN contourHalfMax ELSE returned

\* main, lines 424-539: one pass of the frame loop
RenderFrame ==
    /\ pc = "frame"
    /\ LET frame == FrameNumber(index, args.frames)
           step == IF RotatesInFrame(frame, args.frames)
                   THEN args.angle ELSE <<>>
       IN /\ starsRot' = IF step # <<>>
                         THEN Rotate(starsRot, stars, step[1], step[2], step[3])
                         ELSE starsRot
          /\ gasRot' = IF step # <<>>
                       THEN Rotate(gasRot, gas, step[1], step[2], step[3])
                       ELSE gasRot
          /\ \E computed \in (IF IsNone(vmax) THEN Vals ELSE {Val(vmax)}),
                contourHalfMax \in (IF stars # {} /\ args.contours /\ gas # {}
                                    THEN Vals ELSE {0}),
                fails \in (IF stars = {} /\ gas = {} THEN BOOLEAN ELSE {FALSE}) :
                /\ imageCalls' = Append(imageCalls,
                       [stars |-> OrNone(stars), gas |-> OrNone(gas),
                        vmax |-> vmax, used |-> computed])
                /\ IF fails
                   THEN \* make_image gives no image for no particles
                        /\ pc' = "end"
                        /\ outcome' = "ExternalError"
                        /\ UNCHANGED <<vmax, saved, index>>
                   ELSE /\ vmax' = Some(CarriedVmax(computed, contourHalfMax))
                        /\ saved' = Append(saved,
                               SaveFileName(args.imagefilename, args.imagetype,
                                            frame, args.frames))
                        /\ index' = index + 1
                        /\ IF index + 1 < args.frames
                           THEN pc' = "frame" /\ outcome' = outcome
                           ELSE pc' = "end" /\ outcome' = "done"
    /\ UNCHANGED <<config, stellar_evolution, psf_type, psf_file, use_com, offset,
                   image_width, nostars, nogas, stars, gas, readCalls,
                   starOffset, gasOffset>>

Next ==
    \/ ParseArgs
    \/ SanityCheck
    \/ LoadStars
    \/ AddFieldStars
    \/ LoadGas
    \/ Setup
    \/ PreRotate
    \/ RenderFrame

Spec == Init /\ [][Next]_vars

SpecLoop == InitLoop /\ [][Next]_vars

\* ------------------------------------------------------------- properties
RECURSIVE SumAxis(_, _)
SumAxis(log, j) == IF log = <<>> THEN 0 ELSE log[1][j] + SumAxis(Tail(log), j)

\* n as six decimal digits, for 0 <= n < 10^6
SixDigits(n) ==
    Digit((n \div 100000) % 10) \o Digit((n \div 10000) % 10)
        \o Digit((n \div 1000) % 10) \o Digit((n \div 100) % 10)
        \o Digit((n \div 10) % 10) \o Digit(n % 10)

ExpectedBase == IF IsNone(args.imagefilename) THEN "test" ELSE Val(args.imagefilename)

ExpectedName(i) ==
    IF args.frames = 1
    THEN ExpectedBase \o "." \o args.imagetype
    ELSE ExpectedBase \o "-" \o SixDigits(args.frames + i) \o "." \o args.imagetype

\* C1: a run of N >= 1 frames saves exactly N files; for N = 1 the file is
\* <base>.<imagetype>, for N > 1 the i-th file (i = 0..N-1, in order) is
\* <base>-<six-digit N+i>.<imagetype>; <base> is "test" without -o.
C1_OutputFileNames ==
    /\ \A i \in 1..Len(saved) : saved[i] = ExpectedName(i - 1)
    /\ Len(saved) <= args.frames
    /\ outcome = "done" => Len(saved) = args.frames

C1_Witness ==
    /\ outcome = "done"
    /\ args.frames = 3
    /\ saved = <<"test-000003.png", "test-000004.png", "test-000005.png">>

\* C2 (as claimed): in every frame after the first, the vmax given to
\* make_image is the vmax make_image used in the first frame.
C2_VmaxHeldFixed ==
    \A k \in 2..Len(imageCalls) : imageCalls[k].vmax = Some(imageCalls[1].used)

\* the rotate calls of a whole run of N frames on a non-empty set: the
\* pre-step of N-1 steps, then one step in each frame
RotationsOfRun(log, steps) ==
    /\ \A j \in 1..3 : SumAxis(log, j) = steps * args.angle[j]
    /\ \A i \in 1..Len(log) : \E k \in 0..args.frames : log[i] = Times(k, args.angle)

\* C3 (as claimed): when the final frame of an N-frame run is rendered, the
\* rotation applied about each axis adds up to N steps, for stars and gas.
C3_CumulativeIsNSteps ==
    outcome = "done" =>
        /\ stars # {} => RotationsOfRun(starsRot, args.frames)
        /\ gas # {} => RotationsOfRun(gasRot, args.frames)

\* C3 (amended): when the final frame of an N-frame run is rendered, the
\* rotation applied about each axis adds up to 2N-1 steps (N-1 before the
\* loop and one in each of the N frames), for stars and gas alike, every call
\* giving the angles in the order x, y, z.
C3_CumulativeRotation ==
    outcome = "done" =>
        /\ stars # {} => RotationsOfRun(starsRot, 2 * args.frames - 1)
        /\ gas # {} => RotationsOfRun(gasRot, 2 * args.frames - 1)

C3_Witness ==
    /\ outcome = "done"
    /\ args.frames = 3
    /\ args.angle = <<1, 2, 3>>
    /\ stars # {}
    /\ gas # {}
    /\ SumAxis(starsRot, 1) = 5
    /\ SumAxis(gasRot, 3) = 15

\* C4 (as claimed): in a single-frame run no rotate call has a non-zero angle.
C4_SingleFrameNotRotated ==
    args.frames = 1 =>
        /\ \A i \in 1..Len(starsRot) : starsRot[i] = <<0, 0, 0>>
        /\ \A i \in 1..Len(gasRot) : gasRot[i] = <<0, 0, 0>>

\* C4 (amended): in a single-frame run the rotation before the loop is by
\* zero angles and the frame applies exactly one rotation by (ax, ay, az) to
\* each non-empty set before make_image is called.
C4_SingleFrameRotatedOnce ==
    (args.frames = 1 /\ Len(imageCalls) >= 1) =>
        /\ stars # {} => starsRot = <<<<0, 0, 0>>, args.angle>>
        /\ gas # {} => gasRot = <<<<0, 0, 0>>, args.angle>>

C4_Witness ==
    /\ args.frames = 1
    /\ args.angle = <<1, 2, 3>>
    /\ Len(imageCalls) = 1
    /\ stars # {}
    /\ starsRot = <<<<0, 0, 0>>, <<1, 2, 3>>>>

PsfInvalid ==
    /\ args.psf_type \notin ExistingPaths
    /\ args.psf_type \notin {"Hubble", "hubble", "GAUSSIAN", "gaussian"}

FileMissing(name) == IsNone(name) \/ Val(name) \notin ExistingPaths

BothFilesMissing == FileMissing(args.starsfilename) /\ FileMissing(args.gasfilename)

NothingDone ==
    /\ readCalls = {}
    /\ stars = {}
    /\ gas = {}
    /\ imageCalls = <<>>
    /\ saved = <<>>

C6_BothEmptyRejected ==
    /\ \A k \in 1..Len(imageCalls) :
          ~(IsNone(imageCalls[k].stars) /\ IsNone(imageCalls[k].gas))
    /\ (stars = {} /\ gas = {}) => saved = <<>>

\* C7 (as claimed): every star given to make_image was assigned its
\* luminosity by evolve_to_age or by the fixed-luminosity assignment.
C7_LuminosityAssigned ==
    \A k \in 1..Len(imageCalls) :
        ~IsNone(imageCalls[k].stars) =>
            \A p \in Val(imageCalls[k].stars) :
                p.evolved \/ p.bands = args.sourcebands

\* C8 (as claimed): with --fl every star given to make_image has 1 LSun in
\* every requested band and did not go through the stellar evolution delegate.
C8_FixedLuminosityForAll ==
    args.fixed_luminosity =>
        \A k \in 1..Len(imageCalls) :
            ~IsNone(imageCalls[k].stars) =>
                \A p \in Val(imageCalls[k].stars) :
                    p.bands = args.sourcebands /\ ~p.evolved

CenteringRequested == args.use_com \/ ~IsNone(args.followfilename)

BothLoaded == ~IsNone(starOffset) /\ ~IsNone(gasOffset)

\* the centroid the stars are centered on, from the file contents
C9_StarCentroid ==
    LET on == IF IsNone(args.followfilename) THEN disk.stars
              ELSE {p \in disk.stars : p.key \in disk.follow}
        n == Cardinality(on)
        com == <<SumCoord(on, 1) \div n, SumCoord(on, 2) \div n, SumCoord(on, 3) \div n>>
    IN IF args.width.max
       THEN <<(MaxCoord(disk.stars, 1) + MinCoord(disk.stars, 1)) \div 2,
              (MaxCoord(disk.stars, 2) + MinCoord(disk.stars, 2)) \div 2,
              com[3]>>
       ELSE com

\* C9 (as claimed): with both files loaded and centering requested, the
\* offset subtracted from the gas is the one subtracted from the stars.
C9_SameOffset ==
    (CenteringRequested /\ BothLoaded) =>
        /\ starOffset = Some(C9_StarCentroid)
        /\ gasOffset = starOffset

\* C9 (amended): with both files loaded and centering requested, the offset
\* subtracted from the gas is the one subtracted from the stars provided the
\* star set is not empty after cropping and field-star addition; when it is
\* empty, the gas's own centroid is subtracted from the gas.
C9_SameOffsetUnlessNoStars ==
    (CenteringRequested /\ BothLoaded) =>
        /\ starOffset = Some(C9_StarCentroid)
        /\ stars # {} => gasOffset = starOffset
        /\ stars = {} =>
              gasOffset = Some(<<SumCoord(disk.gas, 1) \div Cardinality(disk.gas),
                                 SumCoord(disk.gas, 2) \div Cardinality(disk.gas),
                                 SumCoord(disk.gas, 3) \div Cardinality(disk.gas)>>)

C9_Witness ==
    /\ CenteringRequested
    /\ BothLoaded
    /\ stars # {}
    /\ Cardinality(stars) < Cardinality(disk.stars)
    /\ gasOffset = starOffset
    /\ starOffset # Some(<<0, 0, 0>>)
    /\ gasOffset # Some(CenterOfMass(disk.gas))

\* C10 (as claimed): read_set_from_file is only called on files that exist.
C10_OnlyExistingFilesRead == \A path \in readCalls : path \in ExistingPaths

====
